---- MODULE Spec2Model ----
(***************************************************************************)
(* State-machine model of EyeTrackApp/eye_processor.py (class EyeProcessor) *)
(* and of the parts of RANSACApp/camera_widget.py that drive it.           *)
(*                                                                         *)
(* The worker thread (EyeProcessor.run) is modelled statement group by     *)
(* statement group with a program counter pc; the other threads (camera    *)
(* producer, GUI) are environment actions.  Images are abstracted to their *)
(* shape, the index of the camera frame they come from and the rotation    *)
(* applied so far; the detectors, intense(), cal_osc() and BLINK() are     *)
(* external and are modelled by what they may return.                      *)
(***************************************************************************)
EXTENDS Integers, Sequences, FiniteSets, TLC

VARIABLES
    settings,                 \* EyeTrackSettingsConfig (gui_* fields)
    config,                   \* EyeTrackCameraConfig (ROI and rotation)
    cancellation_event,       \* threading.Event
    capture_event,            \* threading.Event
    capture_queue_incoming,   \* queue.Queue of (image, frame_number, fps)
    image_queue_outgoing,     \* queue.Queue of (image_stack, EyeInformation)
    previous_image,
    current_image,
    current_image_gray,
    current_image_gray_clean,
    current_frame_number,
    previous_rotation,
    eyeoffx,
    camera_model,
    detector_3d,
    er_hsf,
    er_hsrac,
    failed,
    firstalgo,
    secondalgo,
    thirdalgo,
    fourthalgo,
    pc,                       \* position of the worker thread in run()
    delivered,                \* number of frames the camera has delivered
    timeouts,                 \* timeouts of the get since the last frame (observation only)
    tick,                     \* history of the loop iteration in progress (observation only)
    local,                    \* local values of run(): fields read one by one, algolist
    ui,                       \* the GUI thread: CameraWidget.render and what it has drawn
    hist                      \* history of the calls of run() (observation only)

vars == << settings, config, cancellation_event, capture_event,
           capture_queue_incoming, image_queue_outgoing, previous_image,
           current_image, current_image_gray, current_image_gray_clean,
           current_frame_number, previous_rotation, eyeoffx, camera_model,
           detector_3d, er_hsf, er_hsrac, failed, firstalgo, secondalgo,
           thirdalgo, fourthalgo, pc, delivered, timeouts, tick, local, ui, hist >>

(***************************************************************************)
(* Bounds of the model.                                                    *)
(***************************************************************************)
\* Number of frames the camera delivers in one behaviour.
MaxFrames == 2

\* Consecutive timeouts of the get that are counted (more are counted as this).
MaxTimeouts == 1

\* Number of calls of run() on the same object in one behaviour.
MaxRuns == 2

\* Number of GUI events (slider, mouse button up, mode buttons) handled by
\* render() in one behaviour; calls with no event are not counted.
MaxUiEvents == 1

\* Number of outputs waiting in the outgoing queue when the GUI starts to
\* consume them.
MaxQueued == 2

(***************************************************************************)
(* Values.                                                                 *)
(***************************************************************************)
\* Python's None (for images, engine handles and algorithm slots).
None == [kind |-> "None"]

\* enum InformationOrigin
InformationOrigin == [RANSAC |-> 1, BLOB |-> 2, FAILURE |-> 3, HSF |-> 4, HSRAC |-> 5]

\* dataclass EyeInformation
EyeInformation(info_type, x, y, pupil_dialation, blink) ==
    [info_type |-> info_type, x |-> x, y |-> y,
     pupil_dialation |-> pupil_dialation, blink |-> blink]

\* The bound methods self.HSFM, self.HSRACM, self.RANSAC3DM, self.BLOBM.
Method(name) == [kind |-> "method", name |-> name]
HSFM_ == Method("HSFM")
HSRACM_ == Method("HSRACM")
RANSAC3DM_ == Method("RANSAC3DM")
BLOBM_ == Method("BLOBM")

\* An image: a numpy array of the given shape.  idx is the frame_number of
\* the camera frame it derives from, rot the rotation (degrees, mod 360)
\* applied to it so far, ch the number of channels.
\* by names who wrote the pixels: "camera", or the detector that made it.
Image(rows, cols, ch, idx, rot) ==
    [kind |-> "img", rows |-> rows, cols |-> cols, ch |-> ch, idx |-> idx, rot |-> rot,
     by |-> "camera"]

Min(a, b) == IF a < b THEN a ELSE b
Max(a, b) == IF a > b THEN a ELSE b

(***************************************************************************)
(* Inputs of the model.                                                    *)
(***************************************************************************)
\* Shape of the frames the camera delivers.
FrameRows == 2
FrameCols == 2

\* Priority ranks the GUI offers for an algorithm.
Priorities == 1..4

\* Every value of the eight settings fields run() reads.
SettingsSpace ==
    [gui_HSF : BOOLEAN, gui_HSFP : Priorities,
     gui_HSRAC : BOOLEAN, gui_HSRACP : Priorities,
     gui_RANSAC3D : BOOLEAN, gui_RANSAC3DP : Priorities,
     gui_BLOB : BOOLEAN, gui_BLOBP : Priorities]

\* The enable flags and the priorities of the four algorithms, in the fixed
\* order in which run() assigns them: HSF, HSRAC, RANSAC3D, BLOB.
AlgoEnabled(s) == << s.gui_HSF, s.gui_HSRAC, s.gui_RANSAC3D, s.gui_BLOB >>
AlgoPriority(s) == << s.gui_HSFP, s.gui_HSRACP, s.gui_RANSAC3DP, s.gui_BLOBP >>

\* The settings of the worker runs that are explored tick by tick: the
\* priorities 1, 2, 3, 4 in the fixed order, with no algorithm enabled, each
\* algorithm enabled alone, or all four enabled.
PriorityProfiles == { <<1, 2, 3, 4>> }

FlagProfiles ==
    { <<FALSE, FALSE, FALSE, FALSE>>,
      <<TRUE, FALSE, FALSE, FALSE>>, <<FALSE, TRUE, FALSE, FALSE>>,
      <<FALSE, FALSE, TRUE, FALSE>>, <<FALSE, FALSE, FALSE, TRUE>>,
      <<TRUE, TRUE, TRUE, TRUE>> }

WorkerSettings ==
    { s \in SettingsSpace :
        AlgoPriority(s) \in PriorityProfiles /\ AlgoEnabled(s) \in FlagProfiles }

\* ROI rectangles <<x, y, w, h>>: the whole frame, a part of it, two that
\* overhang the frame to the right and to the bottom, one beside the frame,
\* and the empty rectangle of an ROI that has not been drawn yet.
RoiChoices ==
    { <<0, 0, FrameCols, FrameRows>>,
      <<0, 0, FrameCols - 1, FrameRows - 1>>,
      <<1, 0, FrameCols, FrameRows>>,
      <<0, 1, FrameCols, FrameRows>>,
      <<FrameCols, 0, 1, 1>>,
      <<0, 0, 0, 0>> }

RotationAngles == {0, 90}

ConfigSpace ==
    { [roi_window_x |-> r[1], roi_window_y |-> r[2], roi_window_w |-> r[3],
       roi_window_h |-> r[4], rotation_angle |-> a] :
        r \in RoiChoices, a \in RotationAngles }

\* What the camera may deliver: a colour frame, or None for a failed capture.
CameraImages(n) == { Image(FrameRows, FrameCols, 3, n, 0), None }

\* What a detector may return as pupil centre: the sentinel (0, 0) or a point.
DetectorPoints == { <<0, 0>>, <<1, 1>> }

\* What intense() may return (eye openness; 0 is a closed eye).
EyeOpenValues == {0, 1}

(***************************************************************************)
(* run(), lines 324-384: the slot table.                                    *)
(***************************************************************************)
\* algolist after the HSF and HSRAC blocks (lines 328-346); index 0 is the
\* unused first element of the five-element list.
algolist(s) ==
    LET a0 == [i \in 0..4 |-> None]
        a1 == IF s.gui_HSF THEN [a0 EXCEPT ![s.gui_HSFP] = HSFM_] ELSE a0
        a2 == IF s.gui_HSRAC THEN [a1 EXCEPT ![s.gui_HSRACP] = HSRACM_] ELSE a1
    IN  a2

\* The if/elif chain of lines 359-366 and 377-384: algorithm m, when enabled,
\* overwrites the slot of its priority p.
AssignChain(slots, enabled, p, m) ==
    IF enabled /\ p = 1 THEN [slots EXCEPT ![1] = m]
    ELSE IF enabled /\ p = 2 THEN [slots EXCEPT ![2] = m]
    ELSE IF enabled /\ p = 3 THEN [slots EXCEPT ![3] = m]
    ELSE IF enabled /\ p = 4 THEN [slots EXCEPT ![4] = m]
    ELSE slots

\* <<firstalgo, secondalgo, thirdalgo, fourthalgo>> as run() computes them
\* from the settings (lines 324-384) when no field is written meanwhile.
SlotTable(s) ==
    LET al == algolist(s)
        t0 == << al[1], al[2], al[3], al[4] >>
        t1 == AssignChain(t0, s.gui_RANSAC3D, s.gui_RANSAC3DP, RANSAC3DM_)
    IN  AssignChain(t1, s.gui_BLOB, s.gui_BLOBP, BLOBM_)

\* The engine handle after the enable test of lines 332-346.
EngineAfterSetup(enabled, handle, fresh) ==
    IF enabled THEN (IF handle = None THEN fresh ELSE handle) ELSE None

\* A freshly constructed engine.  seen is the engine's internal state, reduced
\* to the resolutions <<cols, rows>> of the frames it has been run on.
External_Run_HSF == [kind |-> "External_Run_HSF", seen |-> {}]
External_Run_HSRACS == [kind |-> "External_Run_HSRACS", seen |-> {}]

\* engine.run(frame): the engine adapts its internal state to the frame.
EngineRun(engine, frame) ==
    [engine EXCEPT !.seen = @ \cup { << frame.cols, frame.rows >> }]

(***************************************************************************)
(* capture_crop_rotate_image(), lines 199-238.                              *)
(***************************************************************************)
\* Length of the Python slice [start:stop] of a sequence of n elements.
SliceIndex(i, n) == IF i < 0 THEN Max(i + n, 0) ELSE Min(i, n)
SliceLen(start, stop, n) == Max(0, SliceIndex(stop, n) - SliceIndex(start, n))

\* The crop of lines 204-211 raises when current_image cannot be subscripted.
CropRaises(img) == img = None

\* numpy slicing [y : y+h, x : x+w]: a slice reaching outside the array is
\* clipped to it and never raises.
Crop(img, cfg) ==
    [img EXCEPT
        !.rows = SliceLen(cfg.roi_window_y, cfg.roi_window_y + cfg.roi_window_h, img.rows),
        !.cols = SliceLen(cfg.roi_window_x, cfg.roi_window_x + cfg.roi_window_w, img.cols)]

\* cv2.warpAffine raises on None and on an image without pixels.
WarpRaises(img) == img = None \/ img.rows = 0 \/ img.cols = 0

\* cv2.warpAffine(img, rotation_matrix(angle), (cols, rows)).
warpAffine(img, angle, cols, rows) ==
    [img EXCEPT !.rows = rows, !.cols = cols, !.rot = (img.rot + angle) % 360]

\* capture_crop_rotate_image without the fallback to previous_image.
capture_crop_rotate_image_nofallback(cur, prev, cfg) ==
    IF CropRaises(cur) \/ WarpRaises(Crop(cur, cfg))
    THEN [ret |-> FALSE, current_image |-> cur, crop_raised |-> CropRaises(cur)]
    ELSE LET c == Crop(cur, cfg)
         IN  [ret |-> TRUE,
              current_image |-> warpAffine(c, cfg.rotation_angle, c.cols, c.rows),
              crop_raised |-> FALSE]

\* capture_crop_rotate_image returning True also when the rotation raised.
capture_crop_rotate_image_true(cur, prev, cfg) ==
    LET crop_raised == CropRaises(cur)
        cropped == IF crop_raised THEN prev ELSE Crop(cur, cfg)
        shaped == IF cropped # None THEN cropped ELSE prev
    IN  IF shaped = None \/ WarpRaises(cropped)
        THEN [ret |-> TRUE, current_image |-> cropped, crop_raised |-> crop_raised]
        ELSE [ret |-> TRUE,
              current_image |->
                  warpAffine(cropped, cfg.rotation_angle, shaped.cols, shaped.rows),
              crop_raised |-> crop_raised]

\* The method's result (ret: TRUE for True, FALSE for the None it returns
\* when the rotation raised), self.current_image as it leaves it, and
\* whether the crop raised.
capture_crop_rotate_image(cur, prev, cfg) ==
    LET crop_raised == CropRaises(cur)
        cropped == IF crop_raised THEN prev ELSE Crop(cur, cfg)
        \* lines 221-224: the shape of current_image, else of previous_image
        shaped == IF cropped # None THEN cropped ELSE prev
    IN  IF shaped = None \/ WarpRaises(cropped)
        THEN [ret |-> FALSE, current_image |-> cropped, crop_raised |-> crop_raised]
        ELSE [ret |-> TRUE,
              current_image |->
                  warpAffine(cropped, cfg.rotation_angle, shaped.cols, shaped.rows),
              crop_raised |-> crop_raised]

\* cv2.cvtColor(img, cv2.COLOR_BGR2GRAY) raises unless img has pixels of
\* three channels.
CvtRaises(img) == img = None \/ img.ch # 3 \/ img.rows = 0 \/ img.cols = 0

\* cv2.cvtColor(img, cv2.COLOR_BGR2GRAY)
BGR2GRAY(img) == [img EXCEPT !.ch = 1]

\* cv2.cvtColor(img, cv2.COLOR_GRAY2BGR)
GRAY2BGR(img) == [img EXCEPT !.ch = 3]

(***************************************************************************)
(* The external functions, by what they may return.                        *)
(***************************************************************************)
\* The diagnostic frame a detector returns for the grayscale frame g: of the
\* same shape as g, or of another height.
DiagFrames(g, name) ==
    { [g EXCEPT !.rows = r, !.by = name] : r \in {g.rows, g.rows + 1} }

\* The grayscale frame External_Run_HSRACS.run returns: the frame it was
\* given, or a frame of its own making.
GrayReturned(g) == { g, [g EXCEPT !.by = "HSRAC"] }

\* cal_osc(self, cx, cy): the calibrated and filtered coordinates, kept as
\* uninterpreted terms over the raw ones.
cal_osc(cx, cy) == << <<"out_x", cx, cy>>, <<"out_y", cx, cy>> >>

(***************************************************************************)
(* Initial state: the object after __init__ (lines 99-181), with run()     *)
(* about to be called on the worker thread.                                 *)
(***************************************************************************)
\* crop_raised, had_previous: what capture_crop_rotate_image met; invoked: the
\* algorithm methods called; mismatch: a call's frames could not be
\* concatenated; puts: what the calls put on the outgoing queue; torn: the
\* slice of the crop was taken with two different values of y or of x.
NoTick ==
    [crop_raised |-> FALSE, had_previous |-> FALSE, invoked |-> << >>,
     mismatch |-> FALSE, puts |-> << >>, torn |-> FALSE]

\* run() has not been called yet.  runs counts the calls; at_setup and before
\* are the settings as they were when the latest call and the call before it
\* began; torn tells whether a field of the settings was written while the
\* prologue of the latest call was reading them; handles are the engine
\* handles as the latest call found them; enabled[a] tells whether the flag
\* of algorithm a was read as true by a prologue since its engine handle
\* was last empty.
NoHist(s) ==
    [runs |-> 0, at_setup |-> s, before |-> s, torn |-> FALSE,
     handles |-> << None, None, None, None >>,
     enabled |-> [a \in 1..4 |-> FALSE]]

\* The local values of run(): the fields of config read one by one (none
\* yet), algolist (index 0 is the unused first element of the list) and the
\* branch k of the if/elif chain the prologue is in.
NoLocal ==
    [w0 |-> 0, h0 |-> 0, w1 |-> 0, h1 |-> 0, w2 |-> 0, h2 |-> 0,
     ya |-> 0, yb |-> 0, h |-> 0, xa |-> 0, xb |-> 0, w |-> 0,
     algolist |-> [i \in 0..4 |-> None], k |-> 0]

\* The GUI thread between two events: no ROI write in progress, nothing
\* drawn on the output graph or on the ROI graph, roi_queue empty.
UiIdle ==
    [pc |-> "idle", roi |-> << 0, 0, 0, 0 >>, events |-> 0, in_roi_mode |-> FALSE,
     tracking_image |-> None, background |-> "white", circle |-> None,
     eye_info |-> None, roi_queue |-> << >>, roi_image |-> None]

Init ==
    /\ settings \in WorkerSettings
    /\ config \in ConfigSpace
    /\ cancellation_event = FALSE
    /\ capture_event = FALSE
    /\ capture_queue_incoming = << >>
    /\ image_queue_outgoing = << >>
    /\ previous_image = None
    /\ current_image = None
    /\ current_image_gray = None
    /\ current_image_gray_clean = None
    /\ current_frame_number = 0
    /\ previous_rotation = config.rotation_angle
    /\ eyeoffx = TRUE
    /\ camera_model = None
    /\ detector_3d = None
    /\ er_hsf = None
    /\ er_hsrac = None
    /\ failed = 0
    /\ firstalgo = None
    /\ secondalgo = None
    /\ thirdalgo = None
    /\ fourthalgo = None
    /\ pc = "run"
    /\ delivered = 0
    /\ timeouts = 0
    /\ tick = NoTick
    /\ local = NoLocal
    /\ ui = UiIdle
    /\ hist = NoHist(settings)

(***************************************************************************)
(* The other threads.                                                      *)
(***************************************************************************)
\* The camera thread: when the worker has signalled that it is ready, push
\* one (image, frame_number, fps) item and clear the signal.
Produce ==
    /\ capture_event
    /\ ~cancellation_event
    /\ delivered < MaxFrames
    /\ \E img \in CameraImages(delivered + 1) :
          capture_queue_incoming' =
              Append(capture_queue_incoming, [image |-> img, frame_number |-> delivered + 1])
    /\ capture_event' = FALSE
    /\ delivered' = delivered + 1
    /\ UNCHANGED << local, ui, hist, settings, config, cancellation_event, image_queue_outgoing,
                    previous_image, current_image, current_image_gray,
                    current_image_gray_clean, current_frame_number, previous_rotation,
                    eyeoffx, camera_model, detector_3d, er_hsf, er_hsrac, failed,
                    firstalgo, secondalgo, thirdalgo, fourthalgo, pc, tick,
                    timeouts >>

\* CameraWidget.shutdown: set the cancellation event.
Shutdown ==
    /\ ~cancellation_event
    /\ cancellation_event' = TRUE
    /\ UNCHANGED << local, ui, hist, settings, config, capture_event, capture_queue_incoming,
                    image_queue_outgoing, previous_image, current_image,
                    current_image_gray, current_image_gray_clean, current_frame_number,
                    previous_rotation, eyeoffx, camera_model, detector_3d, er_hsf,
                    er_hsrac, failed, firstalgo, secondalgo, thirdalgo, fourthalgo,
                    pc, delivered, tick,
                    timeouts >>

(***************************************************************************)
(* run(): the prologue, lines 324-386.  Every read of a field of            *)
(* self.settings is a step of its own: the GUI thread may write a field     *)
(* between two of them.                                                     *)
(***************************************************************************)
\* The positions of the worker in the prologue.
SetupPositions ==
    { "run", "setup_hsfp", "setup_hsrac", "setup_hsracp", "setup_slots",
      "setup_r3d", "setup_r3dp", "setup_blob", "setup_blobp" }

InSetup == pc \in SetupPositions

\* What the steps of the prologue leave unchanged.
SetupFrame ==
    UNCHANGED << ui, settings, config, cancellation_event, capture_event,
                 capture_queue_incoming, image_queue_outgoing, previous_image,
                 current_image, current_image_gray, current_image_gray_clean,
                 current_frame_number, previous_rotation, eyeoffx, camera_model,
                 detector_3d, failed, delivered, tick, timeouts >>

\* Lines 324-334 and 336-338: the slots and algolist are emptied,
\* settings.gui_HSF is read and the engine is built, kept or dropped.
SetupHSF ==
    /\ pc = "run"
    /\ firstalgo' = None
    /\ secondalgo' = None
    /\ thirdalgo' = None
    /\ fourthalgo' = None
    /\ local' = NoLocal
    /\ er_hsf' = EngineAfterSetup(settings.gui_HSF, er_hsf, External_Run_HSF)
    /\ pc' = IF settings.gui_HSF THEN "setup_hsfp" ELSE "setup_hsrac"
    /\ hist' = [runs |-> hist.runs + 1, at_setup |-> settings, before |-> hist.at_setup,
                torn |-> FALSE,
                handles |-> << er_hsf, er_hsrac, detector_3d, None >>,
                enabled |->
                    [hist.enabled EXCEPT
                        ![1] = settings.gui_HSF \/ (er_hsf # None /\ @)]]
    /\ UNCHANGED er_hsrac
    /\ SetupFrame

\* Line 335: algolist[self.settings.gui_HSFP] = self.HSFM.
SetupHSFP ==
    /\ pc = "setup_hsfp"
    /\ local' = [local EXCEPT !.algolist[settings.gui_HSFP] = HSFM_]
    /\ pc' = "setup_hsrac"
    /\ UNCHANGED << hist, er_hsf, er_hsrac, firstalgo, secondalgo, thirdalgo, fourthalgo >>
    /\ SetupFrame

\* Lines 340-342 and 344-346: settings.gui_HSRAC is read and the engine is
\* built, kept or dropped.
SetupHSRAC ==
    /\ pc = "setup_hsrac"
    /\ er_hsrac' = EngineAfterSetup(settings.gui_HSRAC, er_hsrac, External_Run_HSRACS)
    /\ pc' = IF settings.gui_HSRAC THEN "setup_hsracp" ELSE "setup_slots"
    /\ hist' = [hist EXCEPT
                   !.enabled[2] = settings.gui_HSRAC \/ (er_hsrac # None /\ @)]
    /\ UNCHANGED << local, er_hsf, firstalgo, secondalgo, thirdalgo, fourthalgo >>
    /\ SetupFrame

\* Line 343: algolist[self.settings.gui_HSRACP] = self.HSRACM.
SetupHSRACP ==
    /\ pc = "setup_hsracp"
    /\ local' = [local EXCEPT !.algolist[settings.gui_HSRACP] = HSRACM_]
    /\ pc' = "setup_slots"
    /\ UNCHANGED << hist, er_hsf, er_hsrac, firstalgo, secondalgo, thirdalgo, fourthalgo >>
    /\ SetupFrame

\* Line 348: the four slots are taken from algolist.
SetupSlots ==
    /\ pc = "setup_slots"
    /\ firstalgo' = local.algolist[1]
    /\ secondalgo' = local.algolist[2]
    /\ thirdalgo' = local.algolist[3]
    /\ fourthalgo' = local.algolist[4]
    /\ local' = [NoLocal EXCEPT !.k = 1]
    /\ pc' = "setup_r3d"
    /\ UNCHANGED << hist, er_hsf, er_hsrac >>
    /\ SetupFrame

\* The two if/elif chains of lines 359-366 and 377-384: the position at
\* which a chain tests the flag, the position at which it tests the
\* priority, the number of the algorithm in the fixed order, its method,
\* and the position after the chain.
SetupChains ==
    { [flag_at |-> "setup_r3d", prio_at |-> "setup_r3dp", a |-> 3,
       method |-> RANSAC3DM_, after |-> "setup_blob"],
      [flag_at |-> "setup_blob", prio_at |-> "setup_blobp", a |-> 4,
       method |-> BLOBM_, after |-> "loop"] }

\* The worker leaves the chain c: to the first branch of the next chain, or
\* to the loop.
AfterChain(c) ==
    /\ pc' = c.after
    /\ local' = IF c.after = "loop" THEN NoLocal ELSE [local EXCEPT !.k = 1]

\* The worker goes on to the branch after branch local.k of the chain c.
NextBranch(c) ==
    IF local.k < 4
    THEN /\ pc' = c.flag_at
         /\ local' = [local EXCEPT !.k = @ + 1]
    ELSE AfterChain(c)

\* Branch local.k of a chain reads the enable flag (the left operand of
\* its "and"); the priority is read only when the flag was true.
SetupChainFlag ==
    /\ \E c \in SetupChains :
          /\ pc = c.flag_at
          /\ LET flag == AlgoEnabled(settings)[c.a]
             IN  /\ IF flag
                    THEN /\ pc' = c.prio_at
                         /\ local' = local
                    ELSE NextBranch(c)
                 /\ hist' = [hist EXCEPT
                                !.enabled[c.a] =
                                    \/ flag
                                    \/ IF local.k = 1 THEN hist.handles[c.a] # None /\ @
                                       ELSE @]
    /\ UNCHANGED << er_hsf, er_hsrac, firstalgo, secondalgo, thirdalgo, fourthalgo >>
    /\ SetupFrame

\* SetupChainPriority with a slot that is taken left to its holder.
SetupChainPriority_keep ==
    /\ \E c \in SetupChains :
          /\ pc = c.prio_at
          /\ IF AlgoPriority(settings)[c.a] = local.k
             THEN /\ LET t == << firstalgo, secondalgo, thirdalgo, fourthalgo >>
                         u == IF t[local.k] = None THEN [t EXCEPT ![local.k] = c.method]
                              ELSE t
                     IN  /\ firstalgo' = u[1]
                         /\ secondalgo' = u[2]
                         /\ thirdalgo' = u[3]
                         /\ fourthalgo' = u[4]
                  /\ AfterChain(c)
             ELSE /\ UNCHANGED << firstalgo, secondalgo, thirdalgo, fourthalgo >>
                  /\ NextBranch(c)
    /\ UNCHANGED << hist, er_hsf, er_hsrac >>
    /\ SetupFrame

\* Branch local.k of a chain reads the priority (the right operand): when
\* it is k the method is written to slot k and the chain is left.
SetupChainPriority ==
    /\ \E c \in SetupChains :
          /\ pc = c.prio_at
          /\ IF AlgoPriority(settings)[c.a] = local.k
             THEN /\ LET t == << firstalgo, secondalgo, thirdalgo, fourthalgo >>
                         u == [t EXCEPT ![local.k] = c.method]
                     IN  /\ firstalgo' = u[1]
                         /\ secondalgo' = u[2]
                         /\ thirdalgo' = u[3]
                         /\ fourthalgo' = u[4]
                  /\ AfterChain(c)
             ELSE /\ UNCHANGED << firstalgo, secondalgo, thirdalgo, fourthalgo >>
                  /\ NextBranch(c)
    /\ UNCHANGED << hist, er_hsf, er_hsrac >>
    /\ SetupFrame

\* The prologue of run().
Setup ==
    \/ SetupHSF
    \/ SetupHSFP
    \/ SetupHSRAC
    \/ SetupHSRACP
    \/ SetupSlots
    \/ SetupChainFlag
    \/ SetupChainPriority

(***************************************************************************)
(* run(): the loop, lines 387-466.                                          *)
(***************************************************************************)
\* The head of the loop without the cancellation test.
LoopHead_nocancel ==
    /\ pc = "loop"
    /\ pc' = IF config.roi_window_w <= 0 \/ config.roi_window_h <= 0 THEN "sleep"
             ELSE "reset"
    /\ tick' = NoTick
    /\ UNCHANGED << local, ui, hist, settings, config, cancellation_event, capture_event,
                    capture_queue_incoming, image_queue_outgoing, previous_image,
                    current_image, current_image_gray, current_image_gray_clean,
                    current_frame_number, previous_rotation, eyeoffx, camera_model,
                    detector_3d, er_hsf, er_hsrac, failed, firstalgo, secondalgo,
                    thirdalgo, fourthalgo, delivered, timeouts >>

\* Lines 390-396: the cancellation test and the ROI test.
LoopHead ==
    /\ pc = "loop"
    /\ pc' = IF cancellation_event THEN "done"
             ELSE IF config.roi_window_w <= 0 \/ config.roi_window_h <= 0 THEN "sleep"
             ELSE "reset"
    /\ tick' = NoTick
    /\ UNCHANGED << local, ui, hist, settings, config, cancellation_event, capture_event,
                    capture_queue_incoming, image_queue_outgoing, previous_image,
                    current_image, current_image_gray, current_image_gray_clean,
                    current_frame_number, previous_rotation, eyeoffx, camera_model,
                    detector_3d, er_hsf, er_hsrac, failed, firstalgo, secondalgo,
                    thirdalgo, fourthalgo, delivered, timeouts >>

\* Lines 397-399: cancellation_event.wait(0.1), then return or continue.
Sleep ==
    /\ pc = "sleep"
    /\ pc' = IF cancellation_event THEN "done" ELSE "loop"
    /\ UNCHANGED << local, ui, hist, settings, config, cancellation_event, capture_event,
                    capture_queue_incoming, image_queue_outgoing, previous_image,
                    current_image, current_image_gray, current_image_gray_clean,
                    current_frame_number, previous_rotation, eyeoffx, camera_model,
                    detector_3d, er_hsf, er_hsrac, failed, firstalgo, secondalgo,
                    thirdalgo, fourthalgo, delivered, tick,
                    timeouts >>

CameraModel(resolution) == [kind |-> "CameraModel", resolution |-> resolution]
Detector3D(camera) == [kind |-> "Detector3D", camera |-> camera, seen |-> {}]

\* Lines 404-417: rebuild the camera model and the 3D detector when either
\* is missing or the ROI size is not the model's resolution.
\* compared is the (w, h) read by the test of lines 406-409, built the
\* (w, h) read by the constructor call of line 413.
ResetModelWith(at, compared, built) ==
    /\ pc = at
    /\ IF \/ camera_model = None
          \/ detector_3d = None
          \/ camera_model.resolution # compared
       THEN /\ camera_model' = CameraModel(built)
            /\ detector_3d' = Detector3D(CameraModel(built))
       ELSE UNCHANGED << camera_model, detector_3d >>
    /\ pc' = "poll"
    /\ local' = NoLocal
    /\ UNCHANGED << ui, hist, settings, config, cancellation_event, capture_event,
                    capture_queue_incoming, image_queue_outgoing, previous_image,
                    current_image, current_image_gray, current_image_gray_clean,
                    current_frame_number, previous_rotation, eyeoffx, er_hsf, er_hsrac,
                    failed, firstalgo, secondalgo, thirdalgo, fourthalgo, delivered,
                    tick,
                    timeouts >>

\* The step with both fields read from config at once.
ResetModel ==
    ResetModelWith("reset", << config.roi_window_w, config.roi_window_h >>,
                   << config.roi_window_w, config.roi_window_h >>)

\* Line 420 without the test: the worker goes on to line 421 whatever the
\* queue holds.
Poll_always ==
    /\ pc = "poll"
    /\ pc' = "poll_set"
    /\ capture_event' = capture_event
    /\ UNCHANGED << local, ui, hist, settings, config, cancellation_event, capture_queue_incoming,
                    image_queue_outgoing, previous_image, current_image,
                    current_image_gray, current_image_gray_clean, current_frame_number,
                    previous_rotation, eyeoffx, camera_model, detector_3d, er_hsf,
                    er_hsrac, failed, firstalgo, secondalgo, thirdalgo, fourthalgo,
                    delivered, tick,
                    timeouts >>

\* Line 420: capture_queue_incoming.empty(), one operation under the lock of
\* the queue; the camera thread may run before line 421.
Poll ==
    /\ pc = "poll"
    /\ pc' = IF capture_queue_incoming = << >> THEN "poll_set" ELSE "get"
    /\ capture_event' = capture_event
    /\ UNCHANGED << local, ui, hist, settings, config, cancellation_event, capture_queue_incoming,
                    image_queue_outgoing, previous_image, current_image,
                    current_image_gray, current_image_gray_clean, current_frame_number,
                    previous_rotation, eyeoffx, camera_model, detector_3d, er_hsf,
                    er_hsrac, failed, firstalgo, secondalgo, thirdalgo, fourthalgo,
                    delivered, tick,
                    timeouts >>

\* Line 421: capture_event.set(), after the queue was seen empty.
PollSet ==
    /\ pc = "poll_set"
    /\ capture_event' = TRUE
    /\ pc' = "get"
    /\ UNCHANGED << local, ui, hist, settings, config, cancellation_event, capture_queue_incoming,
                    image_queue_outgoing, previous_image, current_image,
                    current_image_gray, current_image_gray_clean, current_frame_number,
                    previous_rotation, eyeoffx, camera_model, detector_3d, er_hsf,
                    er_hsrac, failed, firstalgo, secondalgo, thirdalgo, fourthalgo,
                    delivered, tick,
                    timeouts >>

\* Lines 423-427: capture_queue_incoming.get returns the oldest item.
GetFrame ==
    /\ pc = "get"
    /\ capture_queue_incoming # << >>
    /\ current_image' = Head(capture_queue_incoming).image
    /\ current_frame_number' = Head(capture_queue_incoming).frame_number
    /\ capture_queue_incoming' = Tail(capture_queue_incoming)
    /\ pc' = "crop"
    /\ UNCHANGED << local, ui, hist, settings, config, cancellation_event, capture_event,
                    image_queue_outgoing, previous_image, current_image_gray,
                    current_image_gray_clean, previous_rotation, eyeoffx, camera_model,
                    detector_3d, er_hsf, er_hsrac, failed, firstalgo, secondalgo,
                    thirdalgo, fourthalgo, delivered, timeouts, tick >>

\* The timeout handled by leaving run() instead of continuing.
GetTimeout_return ==
    /\ pc = "get"
    /\ capture_queue_incoming = << >>
    /\ pc' = "done"
    /\ timeouts' = Min(timeouts + 1, MaxTimeouts)
    /\ UNCHANGED << local, ui, hist, settings, config, cancellation_event, capture_event,
                    capture_queue_incoming, image_queue_outgoing, previous_image,
                    current_image, current_image_gray, current_image_gray_clean,
                    current_frame_number, previous_rotation, eyeoffx, camera_model,
                    detector_3d, er_hsf, er_hsrac, failed, firstalgo, secondalgo,
                    thirdalgo, fourthalgo, delivered, tick >>

\* Lines 427-430: the get timed out after 200 ms (queue.Empty): continue.
GetTimeout ==
    /\ pc = "get"
    /\ capture_queue_incoming = << >>
    /\ pc' = "loop"
    /\ timeouts' = Min(timeouts + 1, MaxTimeouts)
    /\ UNCHANGED << local, ui, hist, settings, config, cancellation_event, capture_event,
                    capture_queue_incoming, image_queue_outgoing, previous_image,
                    current_image, current_image_gray, current_image_gray_clean,
                    current_frame_number, previous_rotation, eyeoffx, camera_model,
                    detector_3d, er_hsf, er_hsrac, failed, firstalgo, secondalgo,
                    thirdalgo, fourthalgo, delivered, tick >>

\* Lines 432-439 with an exception of capture_crop_rotate_image's rotation
\* left to propagate, which ends the worker thread.
\* The two reads of y, or the two reads of x, of the slice expression of
\* lines 205-209 returned different values.
SliceTorn == local.ya # local.yb \/ local.xa # local.xb

PreprocessWith_notry(at, cfg) ==
    /\ pc = at
    /\ LET r == capture_crop_rotate_image(current_image, previous_image, cfg)
       IN  /\ current_image' = r.current_image
           /\ tick' = [tick EXCEPT !.crop_raised = r.crop_raised,
                                   !.had_previous = previous_image # None,
                                   !.torn = SliceTorn]
           /\ IF ~r.ret \/ CvtRaises(r.current_image)
              THEN /\ UNCHANGED << current_image_gray, current_image_gray_clean >>
                   /\ pc' = "crashed"
              ELSE /\ current_image_gray' = BGR2GRAY(r.current_image)
                   /\ current_image_gray_clean' = BGR2GRAY(r.current_image)
                   /\ pc' = "algo1"
    /\ timeouts' = 0
    /\ local' = NoLocal
    /\ UNCHANGED << ui, hist, settings, config, cancellation_event, capture_event,
                    capture_queue_incoming, image_queue_outgoing, previous_image,
                    current_frame_number, previous_rotation, eyeoffx, camera_model,
                    detector_3d, er_hsf, er_hsrac, failed, firstalgo, secondalgo,
                    thirdalgo, fourthalgo, delivered >>

\* Lines 432-439: crop and rotate; on failure continue, else derive the
\* grayscale frame and its clean copy.  cfg holds the values of the config
\* fields as the statements read them; at is the position of the worker.
PreprocessWith(at, cfg) ==
    /\ pc = at
    /\ LET r == capture_crop_rotate_image(current_image, previous_image, cfg)
       IN  /\ current_image' = r.current_image
           /\ tick' = [tick EXCEPT !.crop_raised = r.crop_raised,
                                   !.had_previous = previous_image # None,
                                   !.torn = SliceTorn]
           /\ IF ~r.ret
              THEN /\ UNCHANGED << current_image_gray, current_image_gray_clean >>
                   /\ pc' = "loop"
              ELSE IF CvtRaises(r.current_image)
              THEN \* cv2.error leaves run(): the thread ends
                   /\ UNCHANGED << current_image_gray, current_image_gray_clean >>
                   /\ pc' = "crashed"
              ELSE /\ current_image_gray' = BGR2GRAY(r.current_image)
                   /\ current_image_gray_clean' = BGR2GRAY(r.current_image)
                   /\ pc' = "algo1"
    /\ timeouts' = 0
    /\ local' = NoLocal
    /\ UNCHANGED << ui, hist, settings, config, cancellation_event, capture_event,
                    capture_queue_incoming, image_queue_outgoing, previous_image,
                    current_frame_number, previous_rotation, eyeoffx, camera_model,
                    detector_3d, er_hsf, er_hsrac, failed, firstalgo, secondalgo,
                    thirdalgo, fourthalgo, delivered >>

\* The step with every field read from config at once.
Preprocess == PreprocessWith("crop", config)

(***************************************************************************)
(* output_images_and_update(), lines 183-198.                               *)
(***************************************************************************)
\* np.concatenate(..., axis=1) raises unless both images have the same
\* number of rows.
ConcatRaises(a, b) == a.rows # b.rows

\* np.concatenate((a, b), axis=1)
concatenate(a, b) ==
    [kind |-> "img", rows |-> a.rows, cols |-> a.cols + b.cols, ch |-> a.ch,
     left |-> a, right |-> b]

\* Where the callers of output_images_and_update continue when it returns:
\* the four checks of ALGOSELECT call it through the method of their slot.
PutReturn == << "algo2", "algo3", "algo4", "blink" >>

\* The positions of the worker inside output_images_and_update after the
\* put of line 192 has returned: before line 193 and before line 194.
Line193 == << "img1", "img2", "img3", "img4" >>
Line194 == << "rot1", "rot2", "rot3", "rot4" >>

Range193 == { Line193[k] : k \in 1..4 }
Range194 == { Line194[k] : k \in 1..4 }

At193(next) == Line193[CHOOSE k \in 1..4 : PutReturn[k] = next]

\* output_images_and_update with the exception of the concatenation left
\* to propagate to the caller, which ends the worker thread.
output_images_and_update_notry(threshold_image, output_information, next) ==
    /\ IF ConcatRaises(current_image_gray', threshold_image)
       THEN /\ pc' = "crashed"
            /\ UNCHANGED image_queue_outgoing
       ELSE /\ image_queue_outgoing' =
                   Append(image_queue_outgoing,
                          << concatenate(GRAY2BGR(current_image_gray'),
                                         GRAY2BGR(threshold_image)),
                             output_information >>)
            /\ pc' = At193(next)
    /\ UNCHANGED << previous_image, previous_rotation >>

\* output_images_and_update with the assignments of lines 193-194 placed
\* before the try block, so that they run whether or not the put does.
output_images_and_update_early(threshold_image, output_information, next) ==
    /\ IF ConcatRaises(current_image_gray', threshold_image)
       THEN UNCHANGED image_queue_outgoing
       ELSE image_queue_outgoing' =
                Append(image_queue_outgoing,
                       << concatenate(GRAY2BGR(current_image_gray'),
                                      GRAY2BGR(threshold_image)),
                          output_information >>)
    /\ previous_image' = current_image
    /\ previous_rotation' = config.rotation_angle
    /\ pc' = next

\* Lines 184-192 and 195-198: the concatenation and the put, or the except
\* branch.  The method reads self.current_image_gray as its caller left it
\* (the primed variable); next is where the caller continues when the
\* method returns.  put() is one operation on the queue: the GUI thread may
\* take the item before the worker gets to line 193.
output_images_and_update(threshold_image, output_information, next) ==
    /\ IF ConcatRaises(current_image_gray', threshold_image)
       THEN \* except: print the error, pass
            /\ UNCHANGED image_queue_outgoing
            /\ pc' = next
       ELSE /\ image_queue_outgoing' =
                   Append(image_queue_outgoing,
                          << concatenate(GRAY2BGR(current_image_gray'),
                                         GRAY2BGR(threshold_image)),
                             output_information >>)
            /\ pc' = At193(next)
    /\ UNCHANGED << previous_image, previous_rotation >>

\* Line 193: self.previous_image = self.current_image.
StorePreviousImage ==
    /\ \E k \in 1..4 :
          /\ pc = Line193[k]
          /\ pc' = Line194[k]
    /\ previous_image' = current_image
    /\ UNCHANGED << local, ui, hist, settings, config, cancellation_event, capture_event,
                    capture_queue_incoming, image_queue_outgoing, current_image,
                    current_image_gray, current_image_gray_clean, current_frame_number,
                    previous_rotation, eyeoffx, camera_model, detector_3d, er_hsf,
                    er_hsrac, failed, firstalgo, secondalgo, thirdalgo, fourthalgo,
                    delivered, tick, timeouts >>

\* Line 194: self.previous_rotation = self.config.rotation_angle, the angle
\* as the GUI has left it by now; the method returns to its caller.
StorePreviousRotation ==
    /\ \E k \in 1..4 :
          /\ pc = Line194[k]
          /\ pc' = PutReturn[k]
    /\ previous_rotation' = config.rotation_angle
    /\ UNCHANGED << local, ui, hist, settings, config, cancellation_event, capture_event,
                    capture_queue_incoming, image_queue_outgoing, previous_image,
                    current_image, current_image_gray, current_image_gray_clean,
                    current_frame_number, eyeoffx, camera_model, detector_3d, er_hsf,
                    er_hsrac, failed, firstalgo, secondalgo, thirdalgo, fourthalgo,
                    delivered, tick, timeouts >>

(***************************************************************************)
(* The algorithm methods, lines 244-293.                                    *)
(***************************************************************************)
\* History of the call: the method invoked, and what it published if the
\* outgoing queue grew.
Invoked(name, cx, cy, thresh) ==
    [tick EXCEPT
        !.invoked = Append(@, name),
        !.mismatch = @ \/ ConcatRaises(current_image_gray', thresh),
        !.puts = IF Len(image_queue_outgoing') > Len(image_queue_outgoing)
                 THEN Append(@, [by |-> name, cx |-> cx, cy |-> cy, thresh |-> thresh,
                                 item |-> image_queue_outgoing'[Len(image_queue_outgoing')]])
                 ELSE @]

\* HSRACM with the blink state taken from a classification of the frame of
\* this tick instead of the stored eyeoffx.
HSRACM_sametick(next) ==
    \E p \in DetectorPoints, gray_frame \in GrayReturned(current_image_gray),
       e \in EyeOpenValues, b \in BOOLEAN :
      \E thresh \in DiagFrames(current_image_gray, "HSRAC") :
        LET out == cal_osc(p[1], p[2])
        IN  /\ er_hsrac' = EngineRun(er_hsrac, current_image_gray)
            /\ UNCHANGED << er_hsf, detector_3d >>
            /\ current_image_gray' = gray_frame
            /\ IF b
               THEN output_images_and_update(thresh,
                        EyeInformation(InformationOrigin.HSRAC, out[1], out[2], 0, 0), next)
               ELSE output_images_and_update(thresh,
                        EyeInformation(InformationOrigin.HSRAC, out[1], out[2], 0, e), next)
            /\ tick' = Invoked("HSRACM", p[1], p[2], thresh)

HSRACM(next) ==
    \E p \in DetectorPoints, gray_frame \in GrayReturned(current_image_gray),
       e \in EyeOpenValues :
      \E thresh \in DiagFrames(current_image_gray, "HSRAC") :
        LET out == cal_osc(p[1], p[2])
        IN  /\ er_hsrac' = EngineRun(er_hsrac, current_image_gray)
            /\ UNCHANGED << er_hsf, detector_3d >>
            /\ current_image_gray' = gray_frame
            /\ IF eyeoffx
               THEN output_images_and_update(thresh,
                        EyeInformation(InformationOrigin.HSRAC, out[1], out[2], 0, 0), next)
               ELSE output_images_and_update(thresh,
                        EyeInformation(InformationOrigin.HSRAC, out[1], out[2], 0, e), next)
            /\ tick' = Invoked("HSRACM", p[1], p[2], thresh)

HSFM(next) ==
    \E p \in DetectorPoints, e \in EyeOpenValues :
      \E frame \in DiagFrames(current_image_gray, "HSF") :
        LET out == cal_osc(p[1], p[2])
        IN  /\ er_hsf' = EngineRun(er_hsf, current_image_gray)
            /\ UNCHANGED << er_hsrac, detector_3d >>
            /\ current_image_gray' = current_image_gray
            /\ IF p[1] = 0
               THEN output_images_and_update(frame,
                        EyeInformation(InformationOrigin.HSF, out[1], out[2], 0, e), next)
               ELSE output_images_and_update(frame,
                        EyeInformation(InformationOrigin.HSF, out[1], out[2], 0, e), next)
            /\ tick' = Invoked("HSFM", p[1], p[2], frame)

RANSAC3DM(next) ==
    \E p \in DetectorPoints, e \in EyeOpenValues :
      \E thresh \in DiagFrames(current_image_gray, "RANSAC3D") :
        LET out == cal_osc(p[1], p[2])
        IN  /\ detector_3d' = EngineRun(detector_3d, current_image_gray)
            /\ UNCHANGED << er_hsf, er_hsrac >>
            /\ current_image_gray' = current_image_gray
            /\ IF p[1] = 0
               THEN output_images_and_update(thresh,
                        EyeInformation(InformationOrigin.RANSAC, out[1], out[2], 0, e), next)
               ELSE output_images_and_update(thresh,
                        EyeInformation(InformationOrigin.RANSAC, out[1], out[2], 0, e), next)
            /\ tick' = Invoked("RANSAC3DM", p[1], p[2], thresh)

BLOBM(next) ==
    \E p \in DetectorPoints, e \in EyeOpenValues :
      \E thresh \in DiagFrames(current_image_gray, "BLOB") :
        LET out == cal_osc(p[1], p[2])
        IN  /\ UNCHANGED << er_hsf, er_hsrac, detector_3d >>
            /\ current_image_gray' = current_image_gray
            /\ IF p[1] = 0
               THEN output_images_and_update(thresh,
                        EyeInformation(InformationOrigin.HSRAC, out[1], out[2], 0, e), next)
               ELSE output_images_and_update(thresh,
                        EyeInformation(InformationOrigin.HSRAC, out[1], out[2], 0, e), next)
            /\ tick' = Invoked("BLOBM", p[1], p[2], thresh)

\* Calling the bound method held in a slot.
Call(algo, next) ==
    \/ algo = HSFM_ /\ HSFM(next)
    \/ algo = HSRACM_ /\ HSRACM(next)
    \/ algo = RANSAC3DM_ /\ RANSAC3DM(next)
    \/ algo = BLOBM_ /\ BLOBM(next)

\* What a step of ALGOSELECT that calls nothing leaves unchanged.
Skip(next) ==
    /\ pc' = next
    /\ UNCHANGED << image_queue_outgoing, previous_image, previous_rotation,
                    current_image_gray, er_hsf, er_hsrac, detector_3d, tick >>

(***************************************************************************)
(* ALGOSELECT(), lines 297-317: four checks in sequence.                    *)
(***************************************************************************)
\* The first check without the test that the slot is occupied: calling an
\* empty slot raises TypeError, which ends the worker thread.
Check1_noguard ==
    /\ pc = "algo1"
    /\ IF failed = 0
       THEN IF firstalgo # None
            THEN Call(firstalgo, "algo2") /\ failed' = failed
            ELSE Skip("crashed") /\ failed' = failed
       ELSE Skip("algo2") /\ failed' = failed + 1
    /\ UNCHANGED << local, ui, hist, settings, config, cancellation_event, capture_event,
                    capture_queue_incoming, current_image, current_image_gray_clean,
                    current_frame_number, eyeoffx, camera_model, firstalgo,
                    secondalgo, thirdalgo, fourthalgo, delivered, timeouts >>

\* The first check with the slot tested against the settings as they are
\* now: a slot whose algorithm has since been disabled or moved is skipped.
Check1_live ==
    /\ pc = "algo1"
    /\ IF failed = 0 /\ firstalgo # None /\ SlotTable(settings)[1] = firstalgo
       THEN Call(firstalgo, "algo2") /\ failed' = failed
       ELSE Skip("algo2") /\ failed' = failed + 1
    /\ UNCHANGED << local, ui, hist, settings, config, cancellation_event, capture_event,
                    capture_queue_incoming, current_image, current_image_gray_clean,
                    current_frame_number, eyeoffx, camera_model, firstalgo,
                    secondalgo, thirdalgo, fourthalgo, delivered, timeouts >>

Check1 ==
    /\ pc = "algo1"
    /\ IF failed = 0 /\ firstalgo # None
       THEN Call(firstalgo, "algo2") /\ failed' = failed
       ELSE Skip("algo2") /\ failed' = failed + 1
    /\ UNCHANGED << local, ui, hist, settings, config, cancellation_event, capture_event,
                    capture_queue_incoming, current_image, current_image_gray_clean,
                    current_frame_number, eyeoffx, camera_model, firstalgo,
                    secondalgo, thirdalgo, fourthalgo, delivered, timeouts >>

\* The second check taken as a fallback of the first: it calls its slot for
\* every counter value up to 1.
Check2_cascade ==
    /\ pc = "algo2"
    /\ IF failed <= 1 /\ secondalgo # None
       THEN Call(secondalgo, "algo3") /\ failed' = failed
       ELSE Skip("algo3") /\ failed' = failed + 1
    /\ UNCHANGED << local, ui, hist, settings, config, cancellation_event, capture_event,
                    capture_queue_incoming, current_image, current_image_gray_clean,
                    current_frame_number, eyeoffx, camera_model, firstalgo,
                    secondalgo, thirdalgo, fourthalgo, delivered, timeouts >>

Check2 ==
    /\ pc = "algo2"
    /\ IF failed = 1 /\ secondalgo # None
       THEN Call(secondalgo, "algo3") /\ failed' = failed
       ELSE Skip("algo3") /\ failed' = failed + 1
    /\ UNCHANGED << local, ui, hist, settings, config, cancellation_event, capture_event,
                    capture_queue_incoming, current_image, current_image_gray_clean,
                    current_frame_number, eyeoffx, camera_model, firstalgo,
                    secondalgo, thirdalgo, fourthalgo, delivered, timeouts >>

Check3 ==
    /\ pc = "algo3"
    /\ IF failed = 2 /\ thirdalgo # None
       THEN Call(thirdalgo, "algo4") /\ failed' = failed
       ELSE Skip("algo4") /\ failed' = failed + 1
    /\ UNCHANGED << local, ui, hist, settings, config, cancellation_event, capture_event,
                    capture_queue_incoming, current_image, current_image_gray_clean,
                    current_frame_number, eyeoffx, camera_model, firstalgo,
                    secondalgo, thirdalgo, fourthalgo, delivered, timeouts >>

Check4 ==
    /\ pc = "algo4"
    /\ IF failed = 3 /\ fourthalgo # None
       THEN Call(fourthalgo, "blink") /\ failed' = failed
       ELSE Skip("blink") /\ failed' = 0
    /\ UNCHANGED << local, ui, hist, settings, config, cancellation_event, capture_event,
                    capture_queue_incoming, current_image, current_image_gray_clean,
                    current_frame_number, eyeoffx, camera_model, firstalgo,
                    secondalgo, thirdalgo, fourthalgo, delivered, timeouts >>

\* BLINKM(), lines 240-241: eyeoffx takes whatever BLINK(self) returns.
BLINKM ==
    /\ pc = "blink"
    /\ eyeoffx' \in BOOLEAN
    /\ pc' = "loop"
    /\ UNCHANGED << local, ui, hist, settings, config, cancellation_event, capture_event,
                    capture_queue_incoming, image_queue_outgoing, previous_image,
                    current_image, current_image_gray, current_image_gray_clean,
                    current_frame_number, previous_rotation, camera_model, detector_3d,
                    er_hsf, er_hsrac, failed, firstalgo, secondalgo, thirdalgo,
                    fourthalgo, delivered, tick,
                    timeouts >>

(***************************************************************************)
(* The system.                                                             *)
(***************************************************************************)
Next ==
    \/ Produce
    \/ Shutdown
    \/ Setup
    \/ LoopHead
    \/ Sleep
    \/ ResetModel
    \/ Poll
    \/ PollSet
    \/ GetFrame
    \/ GetTimeout
    \/ Preprocess
    \/ Check1
    \/ Check2
    \/ Check3
    \/ Check4
    \/ StorePreviousImage
    \/ StorePreviousRotation
    \/ BLINKM

Spec == Init /\ [][Next]_vars

\* The steps of the worker thread.
Worker ==
    \/ Setup
    \/ LoopHead
    \/ Sleep
    \/ ResetModel
    \/ Poll
    \/ PollSet
    \/ GetFrame
    \/ GetTimeout
    \/ Preprocess
    \/ Check1
    \/ Check2
    \/ Check3
    \/ Check4
    \/ StorePreviousImage
    \/ StorePreviousRotation
    \/ BLINKM

\* The worker is a thread of its own: it is never held back forever.  The
\* behaviours checked for progress start with all four algorithms enabled.
FairInit == Init /\ AlgoEnabled(settings) = << TRUE, TRUE, TRUE, TRUE >>

FairSpec == FairInit /\ [][Next]_vars /\ WF_vars(Worker)

(***************************************************************************)
(* The slot table alone: every setting, and run() entered with or without  *)
(* engines left by an earlier call.                                        *)
(***************************************************************************)
SetupInit ==
    /\ settings \in SettingsSpace
    /\ config = [roi_window_x |-> 0, roi_window_y |-> 0, roi_window_w |-> 0,
                 roi_window_h |-> 0, rotation_angle |-> 0]
    /\ cancellation_event = FALSE
    /\ capture_event = FALSE
    /\ capture_queue_incoming = << >>
    /\ image_queue_outgoing = << >>
    /\ previous_image = None
    /\ current_image = None
    /\ current_image_gray = None
    /\ current_image_gray_clean = None
    /\ current_frame_number = 0
    /\ previous_rotation = config.rotation_angle
    /\ eyeoffx = TRUE
    /\ camera_model = None
    /\ detector_3d = None
    /\ er_hsf \in {None, External_Run_HSF}
    /\ er_hsrac \in {None, External_Run_HSRACS}
    /\ failed = 0
    /\ firstalgo = None
    /\ secondalgo = None
    /\ thirdalgo = None
    /\ fourthalgo = None
    /\ pc = "run"
    /\ delivered = 0
    /\ timeouts = 0
    /\ tick = NoTick
    /\ local = NoLocal
    /\ ui = UiIdle
    /\ hist = NoHist(settings)

SetupNext == Setup

SpecSetup == SetupInit /\ [][SetupNext]_vars

(***************************************************************************)
(* run() called again on the same object after it has returned, with the   *)
(* settings changed in between.                                            *)
(***************************************************************************)
\* The settings after the GUI has left them alone or toggled one enable flag.
SettingsAfterToggle(s) ==
    { s, [s EXCEPT !.gui_HSF = ~@], [s EXCEPT !.gui_HSRAC = ~@],
      [s EXCEPT !.gui_RANSAC3D = ~@], [s EXCEPT !.gui_BLOB = ~@] }

\* The owner of the worker clears the cancellation event and starts a new
\* thread on run() of the same EyeProcessor.
Restart ==
    /\ pc = "done"
    /\ hist.runs < MaxRuns
    /\ settings' \in SettingsAfterToggle(settings)
    /\ cancellation_event' = FALSE
    /\ pc' = "run"
    /\ UNCHANGED << local, ui, hist, config, capture_event, capture_queue_incoming,
                    image_queue_outgoing, previous_image, current_image,
                    current_image_gray, current_image_gray_clean, current_frame_number,
                    previous_rotation, eyeoffx, camera_model, detector_3d, er_hsf,
                    er_hsrac, failed, firstalgo, secondalgo, thirdalgo, fourthalgo,
                    delivered, tick, timeouts >>

\* The first call of run() starts with the ROI set to the whole frame, or
\* not drawn yet.
LifecycleInit ==
    /\ Init
    /\ config.rotation_angle = 0
    /\ << config.roi_window_x, config.roi_window_y, config.roi_window_w,
          config.roi_window_h >> \in { << 0, 0, FrameCols, FrameRows >>, << 0, 0, 0, 0 >> }

LifecycleNext == Next \/ Restart

SpecLifecycle == LifecycleInit /\ [][LifecycleNext]_vars

(***************************************************************************)
(* The GUI thread writing to config while the worker runs: render() of     *)
(* camera_widget.py writes the rotation angle and, field by field, the ROI *)
(* (lines 195-197, 222-230); the worker reads the fields one at a time.     *)
(***************************************************************************)
\* The rectangles the user may draw: x, y are the minima of the corners, w
\* and h the non-zero distances between them: the top left part of the frame.
RoiDrawn == { << 0, 0, FrameCols - 1, FrameRows - 1 >> }
\* Python's truth value of the number held by the blink field.
Truthy(v) == v # 0

\* The test of lines 277-280: the record is drawn as a gaze dot.
DrawsDot_anyblink(eye_info) == eye_info.info_type # InformationOrigin.FAILURE

DrawsDot(eye_info) ==
    eye_info.info_type # InformationOrigin.FAILURE /\ ~Truthy(eye_info.blink)

\* The centre of the circle of lines 282-283: (x * -100, y * -100), kept as
\* terms over the record's coordinates.
CircleAt(eye_info) == << << "times", eye_info.x, -100 >>, << "times", eye_info.y, -100 >> >>

\* Lines 269-291: the item taken from image_queue shown by the widget u: the
\* image, then the dot or the colour of the background.
TrackingShown(u, item) ==
    LET maybe_image == item[1]
        eye_info == item[2]
    IN  [u EXCEPT
            !.tracking_image = maybe_image,
            !.eye_info = eye_info,
            !.circle = IF DrawsDot(eye_info) THEN CircleAt(eye_info) ELSE None,
            !.background =
                IF DrawsDot(eye_info) THEN "white"
                ELSE IF Truthy(eye_info.blink) THEN "blue"
                ELSE IF eye_info.info_type = InformationOrigin.FAILURE THEN "red"
                ELSE @]

\* Lines 251-260: the oldest item of roi_queue taken and its image drawn on
\* the ROI graph; encoding raises for an item without image.
RoiShown(u) ==
    [u EXCEPT
        !.roi_queue = Tail(@),
        !.roi_image = IF Head(u.roi_queue).image = None THEN @
                      ELSE Head(u.roi_queue).image,
        !.pc = IF Head(u.roi_queue).image = None THEN "crashed" ELSE @]

\* What the steps of render() before the end of the call leave unchanged:
\* everything but config and ui.
UiFrame ==
    UNCHANGED << local, hist, settings, cancellation_event, capture_event,
                 capture_queue_incoming, image_queue_outgoing, previous_image,
                 current_image, current_image_gray, current_image_gray_clean,
                 current_frame_number, previous_rotation, eyeoffx, camera_model,
                 detector_3d, er_hsf, er_hsrac, failed, firstalgo, secondalgo,
                 thirdalgo, fourthalgo, pc, delivered, timeouts, tick >>

\* Lines 195-197: the call finds the rotation slider moved.  It goes on to
\* the dispatch of its event at line 210; the worker may run before it
\* gets there.
render_rotation ==
    /\ ui.pc = "idle"
    /\ ui.events < MaxUiEvents
    /\ \E a \in RotationAngles \ {config.rotation_angle} :
          config' = [config EXCEPT !.rotation_angle = a]
    /\ ui' = [ui EXCEPT !.pc = "event", !.events = @ + 1]
    /\ UiFrame

\* The call is at the dispatch of line 210 with an event to handle: it has
\* written the rotation angle, or it has not and begins here.
AtDispatch ==
    \/ ui.pc = "event"
    \/ (ui.pc = "idle" /\ ui.events < MaxUiEvents)

\* The GUI events handled, the call in progress counted once.
EventsCounted == IF ui.pc = "idle" THEN ui.events + 1 ELSE ui.events

\* Lines 222-226: mouse button up after a drag with a non-empty rectangle.
render_roi_x ==
    /\ AtDispatch
    /\ \E r \in RoiDrawn :
          /\ config' = [config EXCEPT !.roi_window_x = r[1]]
          /\ ui' = [ui EXCEPT !.pc = "roi_y", !.roi = r, !.events = EventsCounted]
    /\ UiFrame

\* Line 227.
render_roi_y ==
    /\ ui.pc = "roi_y"
    /\ config' = [config EXCEPT !.roi_window_y = ui.roi[2]]
    /\ ui' = [ui EXCEPT !.pc = "roi_w"]
    /\ UiFrame

\* Line 228.
render_roi_w ==
    /\ ui.pc = "roi_w"
    /\ config' = [config EXCEPT !.roi_window_w = ui.roi[3]]
    /\ ui' = [ui EXCEPT !.pc = "roi_h"]
    /\ UiFrame

\* Line 229; the call goes on to line 247.
render_roi_h ==
    /\ ui.pc = "roi_h"
    /\ config' = [config EXCEPT !.roi_window_h = ui.roi[4]]
    /\ ui' = [ui EXCEPT !.pc = "tail", !.roi = << 0, 0, 0, 0 >>]
    /\ UiFrame

\* Lines 216-221: the ROI Mode button; the camera now fills roi_queue.
render_mode_roi ==
    /\ AtDispatch
    /\ ui' = [ui EXCEPT !.pc = "tail", !.in_roi_mode = TRUE, !.events = EventsCounted]
    /\ UNCHANGED config
    /\ UiFrame

\* Lines 210-215: the Tracking Mode button; the camera fills capture_queue.
render_mode_tracking ==
    /\ AtDispatch
    /\ ui' = [ui EXCEPT !.pc = "tail", !.in_roi_mode = FALSE, !.events = EventsCounted]
    /\ UNCHANGED config
    /\ UiFrame

\* What the steps of lines 247-297 leave unchanged: everything but the
\* widget, the event and image_queue.
RenderFrame ==
    UNCHANGED << local, hist, settings, config, cancellation_event,
                 capture_queue_incoming, previous_image, current_image,
                 current_image_gray, current_image_gray_clean, current_frame_number,
                 previous_rotation, eyeoffx, camera_model, detector_3d, er_hsf,
                 er_hsrac, failed, firstalgo, secondalgo, thirdalgo, fourthalgo,
                 pc, delivered, timeouts, tick >>

\* Where a call of render() is when it gets to line 247: it has handled an
\* event, it has written the rotation angle and has no event to handle, or
\* it has done neither and begins here.
AtTail == ui.pc \in {"idle", "event", "tail"}

\* Lines 267-297, in tracking mode: image_queue.get(block=False) either
\* raises Empty, which is passed over, or returns the oldest item, which is
\* shown.
render_tracking ==
    /\ AtTail
    /\ ~ui.in_roi_mode
    /\ IF image_queue_outgoing = << >>
       THEN /\ image_queue_outgoing' = image_queue_outgoing
            /\ ui' = [ui EXCEPT !.pc = "idle"]
       ELSE /\ image_queue_outgoing' = Tail(image_queue_outgoing)
            /\ ui' = TrackingShown([ui EXCEPT !.pc = "idle"], Head(image_queue_outgoing))
    /\ capture_event' = capture_event
    /\ RenderFrame

\* Line 249, in ROI mode: roi_queue.empty().
render_roi ==
    /\ AtTail
    /\ ui.in_roi_mode
    /\ ui' = [ui EXCEPT !.pc = IF ui.roi_queue = << >> THEN "roi_set" ELSE "roi_get"]
    /\ UNCHANGED << capture_event, image_queue_outgoing >>
    /\ RenderFrame

\* Line 250: capture_event.set(), after roi_queue was seen empty.
render_roi_set ==
    /\ ui.pc = "roi_set"
    /\ capture_event' = TRUE
    /\ ui' = [ui EXCEPT !.pc = "roi_get"]
    /\ UNCHANGED image_queue_outgoing
    /\ RenderFrame

\* Lines 251-266: roi_queue.get(block=False) either raises Empty, which is
\* passed over, or returns the oldest item, which is drawn.
render_roi_get ==
    /\ ui.pc = "roi_get"
    /\ ui' = IF ui.roi_queue = << >> THEN [ui EXCEPT !.pc = "idle"]
             ELSE RoiShown([ui EXCEPT !.pc = "idle"])
    /\ UNCHANGED << capture_event, image_queue_outgoing >>
    /\ RenderFrame

\* The camera thread while the GUI is in tracking mode.
ProduceTracking == ~ui.in_roi_mode /\ Produce

\* The camera thread while the GUI is in ROI mode: its items go to roi_queue.
ProduceRoi ==
    /\ ui.in_roi_mode
    /\ capture_event
    /\ ~cancellation_event
    /\ delivered < MaxFrames
    /\ \E img \in CameraImages(delivered + 1) :
          ui' = [ui EXCEPT !.roi_queue =
                    Append(@, [image |-> img, frame_number |-> delivered + 1])]
    /\ capture_event' = FALSE
    /\ delivered' = delivered + 1
    /\ UNCHANGED << local, hist, settings, config, cancellation_event,
                    capture_queue_incoming, image_queue_outgoing, previous_image,
                    current_image, current_image_gray, current_image_gray_clean,
                    current_frame_number, previous_rotation, eyeoffx, camera_model,
                    detector_3d, er_hsf, er_hsrac, failed, firstalgo, secondalgo,
                    thirdalgo, fourthalgo, pc, timeouts, tick >>

\* The steps of the GUI thread: calls of render().
Gui ==
    \/ render_rotation
    \/ render_roi_x
    \/ render_roi_y
    \/ render_roi_w
    \/ render_roi_h
    \/ render_mode_roi
    \/ render_mode_tracking
    \/ render_tracking
    \/ render_roi
    \/ render_roi_set
    \/ render_roi_get

\* The reads of config fields by the worker, one attribute access each:
\* << position, field read, where it is kept, next position >>.
\* Lines 394 (w0, h0), 406-409 (w1, h1), 413 (w2, h2), 205-209 (the slice
\* bounds y : y + h, x : x + w).
ReadSteps ==
    { << "loop_w", "roi_window_w", "w0", "loop_h" >>,
      << "loop_h", "roi_window_h", "h0", "loop_test" >>,
      << "reset", "roi_window_w", "w1", "reset_h1" >>,
      << "reset_h1", "roi_window_h", "h1", "reset_w2" >>,
      << "reset_w2", "roi_window_w", "w2", "reset_h2" >>,
      << "reset_h2", "roi_window_h", "h2", "reset_done" >>,
      << "crop", "roi_window_y", "ya", "crop_yb" >>,
      << "crop_yb", "roi_window_y", "yb", "crop_h" >>,
      << "crop_h", "roi_window_h", "h", "crop_xa" >>,
      << "crop_xa", "roi_window_x", "xa", "crop_xb" >>,
      << "crop_xb", "roi_window_x", "xb", "crop_w" >>,
      << "crop_w", "roi_window_w", "w", "crop_done" >> }

\* What the steps of the worker that touch only pc and local leave unchanged.
ReadFrame ==
    UNCHANGED << ui, hist, settings, config, cancellation_event, capture_event,
                 capture_queue_incoming, image_queue_outgoing, previous_image,
                 current_image, current_image_gray, current_image_gray_clean,
                 current_frame_number, previous_rotation, eyeoffx, camera_model,
                 detector_3d, er_hsf, er_hsrac, failed, firstalgo, secondalgo,
                 thirdalgo, fourthalgo, delivered, timeouts >>

ReadConfig ==
    /\ \E st \in ReadSteps :
          /\ pc = st[1]
          /\ local' = [local EXCEPT ![st[3]] = config[st[2]]]
          /\ pc' = st[4]
    /\ UNCHANGED tick
    /\ ReadFrame

\* Lines 390-392: the cancellation test at the head of the loop.
LoopEnter ==
    /\ pc = "loop"
    /\ pc' = IF cancellation_event THEN "done" ELSE "loop_w"
    /\ tick' = NoTick
    /\ local' = NoLocal
    /\ ReadFrame

\* Line 394 on the values read; the values read are temporaries, gone once
\* the statement that read them is done.
RoiTest ==
    /\ pc = "loop_test"
    /\ pc' = IF local.w0 <= 0 \/ local.h0 <= 0 THEN "sleep" ELSE "reset"
    /\ local' = NoLocal
    /\ UNCHANGED tick
    /\ ReadFrame

\* Lines 404-417 on the values read.
ResetModelRead ==
    ResetModelWith("reset_done", << local.w1, local.h1 >>, << local.w2, local.h2 >>)

\* The slice [ya : yb + h, xa : xb + w] of the values read, as the ROI that
\* gives the same slice; the rotation angle is read once (line 227).
ReadsAsConfig ==
    [roi_window_x |-> local.xa, roi_window_w |-> local.xb + local.w - local.xa,
     roi_window_y |-> local.ya, roi_window_h |-> local.yb + local.h - local.ya,
     rotation_angle |-> config.rotation_angle]

\* Lines 432-439 on the values read.
PreprocessRead == PreprocessWith("crop_done", ReadsAsConfig)

\* The edge-based algorithm enabled; the ROI not drawn yet, or of the size of
\* the frame and hanging over its bottom by one row.
RaceInit ==
    /\ Init
    /\ AlgoEnabled(settings) = << TRUE, FALSE, FALSE, FALSE >>
    /\ config.rotation_angle = 0
    /\ << config.roi_window_x, config.roi_window_y, config.roi_window_w,
          config.roi_window_h >> \in { << 0, 1, FrameCols, FrameRows >>, << 0, 0, 0, 0 >> }

\* Of the prologue, the steps of a call with the edge-based algorithm alone:
\* line 343 and the right operands of lines 359-383 are not evaluated.
RaceNext ==
    \/ ProduceTracking
    \/ ProduceRoi
    \/ Shutdown
    \/ Gui
    \/ SetupHSF
    \/ SetupHSFP
    \/ SetupHSRAC
    \/ SetupSlots
    \/ SetupChainFlag
    \/ LoopEnter
    \/ ReadConfig
    \/ RoiTest
    \/ Sleep
    \/ ResetModelRead
    \/ Poll
    \/ PollSet
    \/ GetFrame
    \/ GetTimeout
    \/ PreprocessRead
    \/ Check1
    \/ Check2
    \/ Check3
    \/ Check4
    \/ StorePreviousImage
    \/ StorePreviousRotation
    \/ BLINKM

SpecRace == RaceInit /\ [][RaceNext]_vars

(***************************************************************************)
(* The consumer of the outgoing queue: render() of camera_widget.py, the   *)
(* mode buttons (lines 210-221) and the end of a call (lines 247-297).     *)
(***************************************************************************)
\* The records the consumer may meet: every origin, both truth values of
\* blink, coordinates of every detector result.
QueuedRecords ==
    { EyeInformation(o, cal_osc(p[1], p[2])[1], cal_osc(p[1], p[2])[2], 0, b) :
        o \in { InformationOrigin.RANSAC, InformationOrigin.BLOB,
                InformationOrigin.FAILURE, InformationOrigin.HSF,
                InformationOrigin.HSRAC },
        p \in DetectorPoints, b \in EyeOpenValues }

\* The diagnostic image of an output whose two halves are the gray frame.
QueuedImage ==
    LET g == BGR2GRAY(Image(FrameRows, FrameCols, 3, 1, 0))
    IN  concatenate(GRAY2BGR(g), GRAY2BGR(g))

QueuedItems == { << QueuedImage, r >> : r \in QueuedRecords }

\* The GUI in either mode, with up to MaxQueued outputs waiting.
RenderInit ==
    /\ settings \in { s \in WorkerSettings :
                         AlgoEnabled(s) = << TRUE, TRUE, TRUE, TRUE >> }
    /\ config = [roi_window_x |-> 0, roi_window_y |-> 0, roi_window_w |-> FrameCols,
                 roi_window_h |-> FrameRows, rotation_angle |-> 0]
    /\ cancellation_event = FALSE
    /\ capture_event = FALSE
    /\ capture_queue_incoming = << >>
    /\ image_queue_outgoing \in
          UNION { [1..n -> QueuedItems] : n \in 0..MaxQueued }
    /\ previous_image = None
    /\ current_image = None
    /\ current_image_gray = None
    /\ current_image_gray_clean = None
    /\ current_frame_number = 0
    /\ previous_rotation = config.rotation_angle
    /\ eyeoffx = TRUE
    /\ camera_model = None
    /\ detector_3d = None
    /\ er_hsf = None
    /\ er_hsrac = None
    /\ failed = 0
    /\ firstalgo = None
    /\ secondalgo = None
    /\ thirdalgo = None
    /\ fourthalgo = None
    /\ pc = "run"
    /\ delivered = 0
    /\ timeouts = 0
    /\ tick = NoTick
    /\ local = NoLocal
    /\ \E m \in BOOLEAN : ui = [UiIdle EXCEPT !.in_roi_mode = m]
    /\ hist = NoHist(settings)

RenderNext ==
    \/ render_tracking
    \/ render_mode_roi
    \/ render_mode_tracking
    \/ render_roi
    \/ render_roi_set
    \/ render_roi_get

SpecRender == RenderInit /\ [][RenderNext]_vars

(***************************************************************************)
(* Properties.                                                             *)
(***************************************************************************)
Slots == << firstalgo, secondalgo, thirdalgo, fourthalgo >>
Occupied == { k \in 1..4 : Slots[k] # None }
HighestPriority == Slots[CHOOSE k \in Occupied : \A j \in Occupied : k <= j]

\* ALGOSELECT has returned and BLINKM has not run yet.
EndOfAlgoselect == pc = "blink"

\* C1: for a slot table with an occupied slot, every tick invokes exactly
\* the algorithm of the lowest-numbered occupied slot and no other.
C1_InvokesHighestPriority ==
    (EndOfAlgoselect /\ Occupied # {}) => tick.invoked = << HighestPriority.name >>

\* C2: at the end of every ALGOSELECT tick the cascade counter is 0, and
\* exactly one detector call was made when a slot is occupied, none when
\* all slots are empty.
C2_SchedulerDeterminism ==
    EndOfAlgoselect =>
        /\ failed = 0
        /\ Len(tick.invoked) = (IF Occupied # {} THEN 1 ELSE 0)

\* The methods of the algorithms in the fixed order.
AlgoOrder == << HSFM_, HSRACM_, RANSAC3DM_, BLOBM_ >>

\* The algorithm expected in slot k: the latest in the fixed order among the
\* enabled algorithms of priority k, None when there is none.
ExpectedSlot(s, k) ==
    LET c == { i \in 1..4 : AlgoEnabled(s)[i] /\ AlgoPriority(s)[i] = k }
    IN  IF c = {} THEN None
        ELSE AlgoOrder[CHOOSE i \in c : \A j \in c : j <= i]

\* C3: after the slot-table construction of run(), with the settings left
\* alone while it runs, slot k holds the latest (in the order HSF, HSRAC,
\* RANSAC3D, BLOB) enabled algorithm of priority k and is empty when no
\* enabled algorithm has priority k, whatever engines existed before: the
\* table is the function SlotTable of the settings.
C3_SlotTable ==
    ~InSetup =>
        /\ \A k \in 1..4 : Slots[k] = ExpectedSlot(settings, k)
        /\ Slots = SlotTable(settings)

\* C3 witness: all four algorithms enabled with priority 2; BLOB holds slot 2.
C3_Witness ==
    /\ pc = "loop"
    /\ AlgoEnabled(settings) = << TRUE, TRUE, TRUE, TRUE >>
    /\ AlgoPriority(settings) = << 2, 2, 2, 2 >>
    /\ Slots = << None, BLOBM_, None, None >>

\* The origin tag of each algorithm method.
OriginOf(name) ==
    CASE name = "HSFM" -> InformationOrigin.HSF
      [] name = "HSRACM" -> InformationOrigin.HSRAC
      [] name = "RANSAC3DM" -> InformationOrigin.RANSAC
      [] name = "BLOBM" -> InformationOrigin.BLOB

\* C4: every record published carries the origin tag of the algorithm that
\* produced it.
C4_OriginOfProducer ==
    \A i \in DOMAIN tick.puts :
        tick.puts[i].item[2].info_type = OriginOf(tick.puts[i].by)

\* C5: a detector result of (0, 0) is published only as a failure-origin
\* record, never under the origin of a detection algorithm.
C5_SentinelIsFailure ==
    \A i \in DOMAIN tick.puts :
        (tick.puts[i].cx = 0 /\ tick.puts[i].cy = 0)
            => tick.puts[i].item[2].info_type = InformationOrigin.FAILURE

\* C6: in a tick whose crop raised with no previous frame, preprocessing
\* fails: no detector is invoked, nothing is published, and the worker is
\* back at the head of the loop for the next frame.
C6_NoFrameNoOutput ==
    (tick.crop_raised /\ ~tick.had_previous) =>
        /\ pc = "loop"
        /\ tick.invoked = << >>
        /\ tick.puts = << >>

\* C6 witness: the second frame delivered was None and nothing had been
\* accepted before it.
C6_Witness ==
    /\ tick.crop_raised /\ ~tick.had_previous
    /\ current_frame_number = 2
    /\ pc = "loop"

\* C7: a preprocessing step whose crop raises while a previous frame exists
\* succeeds: the tick goes on to ALGOSELECT with the previous frame rotated
\* by the configured angle as current frame.
C7_FallbackToPrevious ==
    [][ (pc = "crop" /\ pc' # "crop" /\ CropRaises(current_image) /\ previous_image # None)
          => /\ pc' = "algo1"
             /\ current_image' =
                  [previous_image EXCEPT !.rot = (@ + config.rotation_angle) % 360]
             /\ current_image_gray' = [current_image' EXCEPT !.ch = 1]
      ]_vars

\* C7 witness: the fallback frame had been rotated by 90 degrees when it was
\* accepted and has been rotated by 90 degrees again.
C7_Witness ==
    /\ pc = "algo1"
    /\ tick.crop_raised /\ tick.had_previous
    /\ config.rotation_angle = 90
    /\ current_image.rot = 180

\* C8: whenever preprocessing succeeds for an ROI with w > 0 and h > 0, the
\* frame it produces has w columns and h rows.
C8_OutputHasRoiShape ==
    (pc = "algo1" /\ config.roi_window_w > 0 /\ config.roi_window_h > 0) =>
        /\ current_image.cols = config.roi_window_w
        /\ current_image.rows = config.roi_window_h

\* C9: when the frames of a call cannot be concatenated, nothing is
\* published in that tick and the worker thread goes on.
C9_MismatchDropsOutput ==
    tick.mismatch => (tick.puts = << >> /\ pc # "crashed")

\* C9 witness: the call of the first tick met frames of unequal height, and
\* the tick has run to its end.
C9_Witness ==
    /\ tick.mismatch
    /\ pc = "loop"
    /\ current_frame_number = 1

RoiConfigured == config.roi_window_w > 0 /\ config.roi_window_h > 0

C11_UnconfiguredRoiBuildsNothing ==
    ~RoiConfigured =>
        /\ er_hsf = None /\ er_hsrac = None
        /\ camera_model = None /\ detector_3d = None
        /\ current_frame_number = 0
        /\ image_queue_outgoing = << >>
        /\ pc \in SetupPositions \cup {"loop", "sleep", "done"}
        /\ (pc = "done" => cancellation_event)

\* The engine handle of each algorithm in the fixed order; the blob-based
\* algorithm has none.
EngineHandles == << er_hsf, er_hsrac, detector_3d, None >>

\* The settings with the enable flag of algorithm a set.
WithFlag(s, a) ==
    CASE a = 1 -> [s EXCEPT !.gui_HSF = TRUE]
      [] a = 2 -> [s EXCEPT !.gui_HSRAC = TRUE]
      [] a = 3 -> [s EXCEPT !.gui_RANSAC3D = TRUE]
      [] a = 4 -> [s EXCEPT !.gui_BLOB = TRUE]

\* C12: when the enable flag of an algorithm was true at the previous setup
\* and is false at this one, the setup (at its last step) leaves the
\* algorithm's engine handle empty and the algorithm in no slot, and every
\* other enabled algorithm keeps the engine the setup found and has the
\* slot it would have had with the flag unchanged.
C12_DisabledEngineDiscarded ==
    [][ (InSetup /\ pc' = "loop") =>
          \A a \in 1..4 :
            (AlgoEnabled(hist.before)[a] /\ ~AlgoEnabled(settings)[a]) =>
               /\ EngineHandles'[a] = None
               /\ \A k \in 1..4 : Slots'[k] # AlgoOrder[a]
               /\ \A b \in (1..4) \ {a} :
                     AlgoEnabled(settings)[b] =>
                        /\ (hist.handles[b] # None => EngineHandles'[b] = hist.handles[b])
                        /\ \A k \in 1..4 :
                              (Slots'[k] = AlgoOrder[b])
                                 <=> (SlotTable(WithFlag(settings, a))[k] = AlgoOrder[b])
      ]_vars

\* C13: once the cancellation event is set the worker eventually leaves
\* run(), whatever the camera does; at the head of the loop it leaves at
\* once; between observing the event and leaving it publishes nothing, and
\* an output published after the event was set is the only one of the tick
\* that was in progress.
C13_CancellationExits ==
    /\ cancellation_event ~> (pc = "done")
    /\ [][ (cancellation_event /\ pc = "loop" /\ pc' # pc) => pc' = "done" ]_vars
    /\ [][ (cancellation_event /\ pc \in {"loop", "sleep", "done"})
             => image_queue_outgoing' = image_queue_outgoing ]_vars
    /\ [][ (cancellation_event /\ image_queue_outgoing' # image_queue_outgoing)
             => Len(tick'.puts) = 1 ]_vars

\* C13 witness: the worker has left run() on cancellation after publishing,
\* with a frame still waiting in the incoming queue.
C13_Witness ==
    /\ pc = "done"
    /\ cancellation_event
    /\ capture_queue_incoming # << >>
    /\ image_queue_outgoing # << >>

\* C14: with the GUI writing the ROI field by field and the rotation angle
\* between any two reads of the worker, the worker thread never ends on an
\* exception, leaves run() only with the cancellation event set, and every
\* tick publishes one output or none.
C14_RaceNeverFatal ==
    /\ pc # "crashed"
    /\ (pc = "done" => cancellation_event)
    /\ Len(tick.puts) <= 1

\* C14 witness: the two reads of y (or of x) inside the slice expression saw
\* different values, and the tick went on to publish its output.
C14_Witness ==
    /\ pc = "blink"
    /\ tick.torn
    /\ Len(tick.puts) = 1

\* The camera frame an output on the outgoing queue was computed from.
FrameOf(item) == item[1].left.idx

\* C15: the outputs on the outgoing queue are in the order of the frames
\* they were computed from, and a tick that passed preprocessing with an
\* occupied slot and frames of matching sizes has published one output.
C15_InOrderNoDrop ==
    /\ \A i, j \in DOMAIN image_queue_outgoing :
          i < j => FrameOf(image_queue_outgoing[i]) <= FrameOf(image_queue_outgoing[j])
    /\ (EndOfAlgoselect /\ Occupied # {} /\ ~tick.mismatch) => Len(tick.puts) = 1

\* The position of the worker after each step of a tick that calls nothing.
AfterIdle(at) ==
    CASE at = "algo1" -> "algo2"
      [] at = "algo2" -> "algo3"
      [] at = "algo3" -> "algo4"
      [] at = "algo4" -> "blink"
      [] at = "blink" -> "loop"

\* C16: with all four slots empty, no detector is called and nothing is
\* published in any tick, the worker thread does not end on an exception,
\* ALGOSELECT runs through its four checks to BLINKM with the counter back
\* at 0, and the worker returns to the head of the loop.
C16_IdleTick ==
    /\ []((~InSetup /\ Occupied = {}) =>
            /\ tick.invoked = << >>
            /\ image_queue_outgoing = << >>
            /\ pc # "crashed"
            /\ (pc = "blink" => failed = 0))
    /\ [][ (Occupied = {} /\ pc \in {"algo1", "algo2", "algo3", "algo4", "blink"}
              /\ pc' # pc) => pc' = AfterIdle(pc) ]_vars

\* C16 witness: the last frame has gone through ALGOSELECT with all slots
\* empty, after the ticks of the frames before it.
C16_Witness ==
    /\ pc = "blink"
    /\ Occupied = {}
    /\ current_frame_number = MaxFrames
    /\ previous_image = None

\* C17: the consumer has drawn the gaze dot of the record it dequeued only
\* if the record's blink field is false and its origin is not failure; for
\* a record whose blink field is true no dot is drawn, so that x and y are
\* not used.
C17_DotOnlyForGazeSamples ==
    /\ ui.circle # None =>
          /\ ~Truthy(ui.eye_info.blink)
          /\ ui.eye_info.info_type # InformationOrigin.FAILURE
          /\ ui.circle = CircleAt(ui.eye_info)
    /\ (ui.eye_info # None /\ Truthy(ui.eye_info.blink)) => ui.circle = None

\* C17 witness: the last waiting record, of the hybrid algorithm with blink
\* true, has been consumed: no dot is drawn, the background is blue.
C17_Witness ==
    /\ ui.eye_info # None
    /\ Truthy(ui.eye_info.blink)
    /\ ui.eye_info.info_type = InformationOrigin.HSRAC
    /\ ui.circle = None
    /\ ui.background = "blue"
    /\ image_queue_outgoing = << >>

\* C18: the cascade counter is 0, 1, 2 or 3 in every reachable state, the
\* states between the four checks of ALGOSELECT included.
C18_CounterRange == failed \in 0..3

\* C19: no instance of a stateful detector engine (er_hsf, er_hsrac,
\* detector_3d) has been run on frames of two different resolutions: after
\* a change of the ROI size the engine is a new one before its algorithm is
\* invoked again.
C19_EngineSingleResolution ==
    \A a \in 1..3 :
        EngineHandles[a] # None => Cardinality(EngineHandles[a].seen) <= 1

\* C20: the engine handle of an algorithm is non-empty only if the enable
\* flag of the algorithm was true at a setup since the handle was last
\* empty; no engine exists for an algorithm that was never enabled.
C20_EnginesLazy ==
    \A a \in 1..3 : EngineHandles[a] # None => hist.enabled[a]

\* C21: previous_image and previous_rotation are written by exactly the
\* ticks that put an output on the outgoing queue: the worker is at line
\* 193 exactly after a step that put an output, goes from there to line 194
\* and back to the caller; the step of line 193 leaves previous_image at the
\* preprocessed frame of the tick (the colour frame the clean grayscale copy
\* was derived from), the step of line 194 leaves previous_rotation at the
\* rotation angle the configuration holds; every other step (a timeout, a
\* failed preprocessing, a check that calls nothing, a call whose frames do
\* not concatenate) leaves both as they were.
C21_PreviousFollowsPut ==
    /\ [][ (pc' # pc /\ pc' \in Range193)
              <=> Len(image_queue_outgoing') > Len(image_queue_outgoing) ]_vars
    /\ [][ \A k \in 1..4 :
              /\ (pc = Line193[k] /\ pc' # pc) =>
                    /\ pc' = Line194[k]
                    /\ previous_image' = current_image
                    /\ current_image' = current_image
                    /\ BGR2GRAY(previous_image') = current_image_gray_clean
              /\ (pc = Line194[k] /\ pc' # pc) =>
                    /\ pc' = PutReturn[k]
                    /\ previous_rotation' = config.rotation_angle ]_vars
    /\ [][ pc \notin Range193 => previous_image' = previous_image ]_vars
    /\ [][ pc \notin Range194 => previous_rotation' = previous_rotation ]_vars

\* C21 witness: the second frame went through a tick whose call could not
\* concatenate its frames, after the first frame was published:
\* previous_image is still the preprocessed first frame.
C21_Witness ==
    /\ pc = "blink"
    /\ tick.mismatch
    /\ tick.puts = << >>
    /\ current_image # None
    /\ current_image.idx = 2
    /\ previous_image # None
    /\ previous_image.idx = 1

\* C22: for every algorithm, the diagnostic image published in a tick is
\* the concatenation of the clean grayscale copy of the tick with the
\* diagnostic frame of the detector, and no call of a detector changes the
\* clean copy: it is assigned only by the preprocessing that hands the
\* frame to ALGOSELECT.
C22_DiagnosticUsesCleanFrame ==
    /\ [](\A i \in DOMAIN tick.puts :
            tick.puts[i].item[1] =
                concatenate(GRAY2BGR(current_image_gray_clean),
                            GRAY2BGR(tick.puts[i].thresh)))
    /\ [][ current_image_gray_clean' # current_image_gray_clean => pc' = "algo1" ]_vars

(***************************************************************************)
(* The settings changed by the GUI while the loop of run() is running.     *)
(***************************************************************************)
\* The settings after one priority has been given another value.
SettingsAfterPriority(s) ==
    UNION { { [s EXCEPT !.gui_HSFP = p], [s EXCEPT !.gui_HSRACP = p],
              [s EXCEPT !.gui_RANSAC3DP = p], [s EXCEPT !.gui_BLOBP = p] } :
            p \in Priorities }

\* The GUI thread writes one enable flag or one priority of the settings
\* object that the worker holds.
SettingsChange ==
    /\ ui.events < MaxUiEvents
    /\ settings' \in (SettingsAfterToggle(settings) \cup SettingsAfterPriority(settings))
                        \ { settings }
    /\ ui' = [ui EXCEPT !.events = @ + 1]
    /\ hist' = [hist EXCEPT !.torn = @ \/ (InSetup /\ pc # "run")]
    /\ UNCHANGED << local, config, cancellation_event, capture_event,
                    capture_queue_incoming, image_queue_outgoing, previous_image,
                    current_image, current_image_gray, current_image_gray_clean,
                    current_frame_number, previous_rotation, eyeoffx, camera_model,
                    detector_3d, er_hsf, er_hsrac, failed, firstalgo, secondalgo,
                    thirdalgo, fourthalgo, pc, delivered, tick, timeouts >>

\* The ROI is the whole frame or not drawn yet, and there is no rotation:
\* the settings are what varies.
SettingsInit ==
    /\ Init
    /\ config.rotation_angle = 0
    /\ << config.roi_window_x, config.roi_window_y,
          config.roi_window_w, config.roi_window_h >>
            \in { << 0, 0, FrameCols, FrameRows >>, << 0, 0, 0, 0 >> }

SettingsNext == Next \/ SettingsChange

SpecSettings == SettingsInit /\ [][SettingsNext]_vars

\* The slot table of the settings as they were when the current call of
\* run() began.
SetupTable == SlotTable(hist.at_setup)

\* What ALGOSELECT invokes in a tick given the table t alone: the method of
\* the first occupied slot when that is one of the slots 1 to 3, and the
\* method of slot 4 or nothing when only slot 4 is occupied.
InvokedFrom(t) ==
    LET occ == { k \in 1..4 : t[k] # None }
    IN  IF occ = {} THEN { << >> }
        ELSE IF occ = {4} THEN { << >>, << t[4].name >> }
        ELSE { << t[CHOOSE k \in occ : \A j \in occ : k <= j].name >> }

\* C23: the slot table and the handles of the edge-based and the hybrid
\* engine are computed by the prologue of run(), before the loop: once the
\* loop is running no step changes the table or creates or drops one of the
\* two handles, and what a tick invokes is decided by the table the loop
\* began with, whatever the enable flags and priorities have been changed
\* to since; when no field was written while the prologue was reading, the
\* table and the handles are those of the settings the call began with.
C23_TableFixedPerRun ==
    /\ []((~InSetup /\ ~hist.torn) =>
            /\ Slots = SetupTable
            /\ (er_hsf # None) = hist.at_setup.gui_HSF
            /\ (er_hsrac # None) = hist.at_setup.gui_HSRAC)
    /\ [](EndOfAlgoselect => tick.invoked \in InvokedFrom(Slots))
    /\ [][ ~InSetup =>
            /\ Slots' = Slots
            /\ (er_hsf' = None) = (er_hsf = None)
            /\ (er_hsrac' = None) = (er_hsrac = None) ]_vars

\* C23 witness: a tick has invoked the algorithm of the table the loop
\* began with after the settings were changed, while the loop was running,
\* so that their table has another algorithm, or none, in that slot.
C23_Witness ==
    /\ pc = "blink"
    /\ ~hist.torn
    /\ settings # hist.at_setup
    /\ Len(tick.invoked) = 1
    /\ \E k \in 1..4 :
          /\ Slots[k] # None
          /\ Slots[k].name = tick.invoked[1]
          /\ SlotTable(settings)[k] # Slots[k]
    /\ current_frame_number = MaxFrames

(***************************************************************************)
(* run() under every slot table the prologue can compute.                  *)
(***************************************************************************)
\* One setting for each choice of enabled algorithms and their priorities:
\* the priority of a disabled algorithm is never read past its flag, and is
\* kept at 1.
TableSettings ==
    { s \in SettingsSpace :
        \A a \in 1..4 : ~AlgoEnabled(s)[a] => AlgoPriority(s)[a] = 1 }

TablesInit ==
    /\ settings \in TableSettings
    /\ config \in { c \in ConfigSpace :
                      /\ c.rotation_angle = 0
                      /\ << c.roi_window_x, c.roi_window_y, c.roi_window_w,
                            c.roi_window_h >>
                            \in { << 0, 0, FrameCols, FrameRows >>, << 0, 0, 0, 0 >> } }
    /\ cancellation_event = FALSE
    /\ capture_event = FALSE
    /\ capture_queue_incoming = << >>
    /\ image_queue_outgoing = << >>
    /\ previous_image = None
    /\ current_image = None
    /\ current_image_gray = None
    /\ current_image_gray_clean = None
    /\ current_frame_number = 0
    /\ previous_rotation = config.rotation_angle
    /\ eyeoffx = TRUE
    /\ camera_model = None
    /\ detector_3d = None
    /\ er_hsf = None
    /\ er_hsrac = None
    /\ failed = 0
    /\ firstalgo = None
    /\ secondalgo = None
    /\ thirdalgo = None
    /\ fourthalgo = None
    /\ pc = "run"
    /\ delivered = 0
    /\ timeouts = 0
    /\ tick = NoTick
    /\ local = NoLocal
    /\ ui = UiIdle
    /\ hist = NoHist(settings)

TablesNext == Next

SpecTables == TablesInit /\ [][TablesNext]_vars

\* C24: ALGOSELECT calls at most one algorithm method in a tick, whatever
\* the slot table and whatever the value of the cascade counter when the
\* tick began.
C24_AtMostOneInvocation == Len(tick.invoked) <= 1

\* C24 witness: the last frame has gone through ALGOSELECT with the first
\* slot empty and the three others occupied, and one method was called.
C24_Witness ==
    /\ pc = "blink"
    /\ Occupied = {2, 3, 4}
    /\ Len(tick.invoked) = 1
    /\ current_frame_number = MaxFrames

(***************************************************************************)
(* The frame-pacing event shared by the worker, the camera and the GUI in  *)
(* ROI mode (camera_widget.py, render, lines 210-221 and 247-266).         *)
(***************************************************************************)
PacingInit ==
    /\ Init
    /\ config.rotation_angle = 0
    /\ << config.roi_window_x, config.roi_window_y,
          config.roi_window_w, config.roi_window_h >>
            \in { << 0, 0, FrameCols, FrameRows >>, << 0, 0, 0, 0 >> }

PacingNext ==
    \/ ProduceTracking
    \/ ProduceRoi
    \/ Shutdown
    \/ Worker
    \/ render_mode_roi
    \/ render_mode_tracking
    \/ render_roi
    \/ render_roi_set
    \/ render_roi_get
    \/ render_tracking

SpecPacing == PacingInit /\ [][PacingNext]_vars

\* The positions of the worker between the cancellation test of line 390
\* and line 421, each with the position it is entered from.
EnteredFrom ==
    { << "loop", "reset" >>, << "loop", "loop_w" >>, << "loop_w", "loop_h" >>,
      << "loop_h", "loop_test" >>, << "loop_test", "reset" >>,
      << "reset", "reset_h1" >>, << "reset_h1", "reset_w2" >>,
      << "reset_w2", "reset_h2" >>, << "reset_h2", "reset_done" >>,
      << "reset", "poll" >>, << "reset_done", "poll" >>, << "poll", "poll_set" >> }

\* C25: a step of the worker (a step that moves pc) changes capture_event
\* only by setting it, at line 421, and the worker goes on to the dequeue;
\* it is at line 421 only after the test of line 420 saw the incoming
\* queue empty; it gets to lines 420 and 421 only through the head of the
\* loop of the same iteration, which it leaves for the body only when the
\* test of line 390 saw the cancellation event not set, and through the
\* ROI test; between the ROI test and the dequeue the ROI is configured,
\* and no step of the worker clears the event.
C25_WorkerSetsEventWhenReady ==
    /\ [](pc \in {"reset", "poll", "poll_set", "get"} => RoiConfigured)
    /\ [][ (pc = "loop" /\ pc' # pc /\ pc' # "done") => ~cancellation_event ]_vars
    /\ [][ (pc' # pc /\ pc' \in { e[2] : e \in EnteredFrom }) =>
              << pc, pc' >> \in EnteredFrom ]_vars
    /\ [][ (pc' # pc /\ pc' = "poll_set") =>
              (pc = "poll" /\ capture_queue_incoming = << >>) ]_vars
    /\ [][ (pc' # pc /\ capture_event' # capture_event) =>
              /\ pc = "poll_set"
              /\ pc' = "get"
              /\ capture_event'
              /\ RoiConfigured ]_vars

\* C25 witness: the GUI never entered ROI mode, nobody asked the worker to
\* stop, the camera cleared the event when it delivered the first frame,
\* and the worker, after the tick of that frame, has set the event again
\* and is at the dequeue.
C25_Witness ==
    /\ ui.events = 0
    /\ ~cancellation_event
    /\ pc = "get"
    /\ capture_event
    /\ capture_queue_incoming = << >>
    /\ delivered = 1
    /\ current_frame_number = 1

\* The order of the positions of a tick from the first check of ALGOSELECT
\* to BLINKM: each check goes on to the next, directly or, when its call
\* put an output, through lines 193 and 194.
TickOrder ==
    UNION { { << PutReturn[k], IF k < 4 THEN PutReturn[k + 1] ELSE "loop" >> } : k \in 1..4 }
      \cup { << "algo1", "algo2" >> }
      \cup UNION { { << IF k = 1 THEN "algo1" ELSE PutReturn[k - 1], Line193[k] >>,
                      << Line193[k], Line194[k] >>,
                      << Line194[k], PutReturn[k] >> } : k \in 1..4 }

\* C26: eyeoffx has the value of the constructor until BLINKM first runs
\* and is assigned by no other step; every tick that passed preprocessing
\* goes through the four checks of ALGOSELECT and then, once, through
\* BLINKM, whether or not a check called an algorithm; so from the call of
\* the hybrid algorithm to the BLINKM of the same tick eyeoffx is what the
\* tick before left (or the constructor), and the record the hybrid
\* algorithm published has blink 0 when that value is true.
C26_BlinkStateOfPreviousTick ==
    /\ eyeoffx = TRUE
    /\ [][ eyeoffx' # eyeoffx => (pc = "blink" /\ pc' = "loop") ]_vars
    /\ [][ (pc \in { e[1] : e \in TickOrder } /\ pc' # pc)
              => << pc, pc' >> \in TickOrder ]_vars
    /\ [](pc \in { e[2] : e \in TickOrder } \ {"loop"} =>
            \A i \in DOMAIN tick.puts :
                (tick.puts[i].by = "HSRACM" /\ eyeoffx) => tick.puts[i].item[2].blink = 0)

\* C26 witness: BLINKM of the first tick left eyeoffx false, and the hybrid
\* algorithm has published the record of the second frame with the eye
\* openness it measured; BLINKM of the second tick has not run yet.
C26_Witness ==
    /\ pc = "blink"
    /\ current_frame_number = 2
    /\ ~eyeoffx
    /\ Len(tick.puts) = 1
    /\ tick.puts[1].by = "HSRACM"
    /\ tick.puts[1].item[2].blink = 1
    /\ Len(image_queue_outgoing) = 2

====
